---------------------------- MODULE Spec2Model ----------------------------
(***************************************************************************)
(* A state-machine model of src/Main.cpp: the GLFW/GLEW start-up, the      *)
(* particle seeding, the shader and buffer set-up, the frame loop and the  *)
(* shutdown of the compute-shader particle system.                         *)
(*                                                                         *)
(* One action per block of main(), in program order (pc is the position    *)
(* of the single control thread).  The OpenGL context is modelled by the   *)
(* state the program can observe or depends on: the current program, the   *)
(* buffer bindings, the contents of the two buffers, the uniform values    *)
(* of the compute program.  The context's error flag is left out: the     *)
(* program never reads it (the value of glGetError() is discarded).       *)
(*                                                                         *)
(* Units.  A clock reading is an integer number of ticks of 0.1 s.  A      *)
(* floating-point value (the time delta in seconds, a pointer position in  *)
(* normalised device coordinates, an age) is a fraction <<num, den>> in    *)
(* lowest terms, rounded where the program's floating-point operations     *)
(* round.                                                                  *)
(* std::cout output (the debug dump, the pointer echo) is not state.       *)
(* Of a particle record the model keeps position, age and lifeTime, and    *)
(* "steps", the number of kernel applications the record has received      *)
(* (the kernel's force law lives in compute_shader.glsl, so the velocity   *)
(* and the position it produces are represented by that count).            *)
(***************************************************************************)
EXTENDS Integers, Sequences, FiniteSets, TLC

\* ------------------------------------------------------------------ bounds
\* Frames the window stays open for at most (the close event arrives in the
\* drain of frame MaxFrames at the latest).
MaxFrames == 2
\* Pointer events delivered by one event drain, at most.
MaxEvents == 2
\* Side lengths (width, height) of the surfaces the pointer callback is
\* applied to in PointerSpec: 1 .. MaxSide.
MaxSide == 5
\* Significand widths of the two binary floating-point formats of the
\* callback, double and float, scaled down from 53 and 24 bits so that the
\* intermediate values fit the integers of the checker.
\* Seeds tried in SeedingSpec: 0 .. MaxSeed.
MaxSeed == 3
DoubleBits == 16
FloatBits == 8

\* Seeds std::random_device returns (Main.cpp:67-68).
Seeds == {0}
\* Ticks the clock may advance between two readings.
ClockSteps == {1, 3}
\* The same for the quiet environment of FairSpec: a steady clock.
QuietClockSteps == {1}
\* Raw pointer events: cursor position and the framebuffer size reported to
\* the callback.
PointerEvents ==
    { [x |-> 0,   y |-> 0,   w |-> 640, h |-> 480],
      [x |-> 480, y |-> 120, w |-> 640, h |-> 480] }

\* Ticks of the clock in a second.
TicksPerSecond == 10

\* --------------------------------------------------------------- constants
NUM_PARTICLES == 1000
WORK_GROUP_SIZE == 10
\* lifeTimeDistr(1.5f, 3.0f), in ticks of 0.1 s
LifeTimeMin == 15
LifeTimeMax == 30

Indices == 0 .. (NUM_PARTICLES - 1)

VARIABLES
    pc,                  \* position of main()
    exitCode,            \* value returned by main() once pc = "Done"
    glfwInitialized,     \* glfwInit() succeeded
    glfwTerminated,      \* glfwTerminate() was called
    window,              \* "null" | "open" | "destroyed"
    callbackSet,         \* glfwSetCursorPosCallback was called
    shouldClose,         \* the window's close flag
    clock,               \* high_resolution_clock: ticks since its first reading
    lastFrameTime,
    deltaTime,           \* float, seconds
    particles,           \* the CPU-side vector
    mousePos,            \* the global glm::vec2
    success,             \* GLint success: "uninit" | "GL_TRUE" | "GL_FALSE"
    computeShader, vertexShader, fragmentShader,   \* handles, 0 when CompileShader failed
    computeShaderProgram, renderShaderProgram,     \* handles
    linked,              \* programs whose last link succeeded
    activeUniforms,      \* active uniforms of the linked compute program
    live,                \* GL objects created and not deleted
    ssbo, vbo,           \* buffer contents by record index, << >> while unallocated
    currentProgram,      \* glUseProgram state
    vertexArrayBinding,
    storageBinding,      \* GL_SHADER_STORAGE_BUFFER (generic)
    storageBinding0,     \* GL_SHADER_STORAGE_BUFFER, index 0
    copyRead, copyWrite, \* GL_COPY_READ_BUFFER / GL_COPY_WRITE_BUFFER
    particleData,        \* result of glMapBuffer: "null" | "mapped"
    uMousePos, uDeltaTime,   \* uniform values of the compute program
    barriers,            \* number of glMemoryBarrier calls issued
    unsynced,            \* a dispatch was issued and no barrier since
    deleteCalls,         \* handles passed to glDelete*, in order
    cerr,                \* messages written to std::cerr
    frame,               \* iterations started
    frameLog,            \* steps of the current iteration, in order
    lastGroups,          \* num_groups_x of the last glDispatchCompute call
    lastEvent,           \* the last pointer event delivered: << >> or <<ev>>
    closeObserved,       \* the loop test has seen the close flag
    deltaSum             \* the sum of the time deltas computed so far

vars == << pc, exitCode, glfwInitialized, glfwTerminated, window, callbackSet,
           shouldClose, clock, lastFrameTime, deltaTime, particles, mousePos,
           success, computeShader, vertexShader, fragmentShader,
           computeShaderProgram, renderShaderProgram, linked, activeUniforms,
           live, ssbo, vbo, currentProgram, vertexArrayBinding, storageBinding,
           storageBinding0, copyRead, copyWrite, particleData, uMousePos,
           uDeltaTime, barriers, unsynced, deleteCalls, cerr, frame, frameLog, lastGroups,
           lastEvent, closeObserved, deltaSum >>

\* Groups of variables, for UNCHANGED.
procVars == << exitCode, glfwInitialized, glfwTerminated, window, callbackSet >>
timeVars == << clock, lastFrameTime, deltaTime >>
shaderVars == << success, computeShader, vertexShader, fragmentShader,
                 computeShaderProgram, renderShaderProgram, linked,
                 activeUniforms >>
bindVars == << currentProgram, vertexArrayBinding, storageBinding,
               storageBinding0, copyRead, copyWrite >>
bufVars == << ssbo, vbo >>
uniVars == << uMousePos, uDeltaTime >>
inputVars == << shouldClose, mousePos, lastEvent >>
ghostVars == << frame, frameLog, lastGroups, closeObserved, deltaSum >>

\* ------------------------------------------------------------ arithmetic
Abs(n) == IF n < 0 THEN -n ELSE n

\* The recursions of this section are written as functions: a function is
\* applied to values, while the arguments of an operator are expressions
\* that are evaluated again at each use.
GcdOf[a \in Nat, b \in Nat] == IF b = 0 THEN a ELSE GcdOf[b, a % b]
Gcd(a, b) == GcdOf[a, b]

\* The fraction n/d (d > 0) in lowest terms.
RatOf[n \in Int, d \in Nat] ==
    LET g == GcdOf[Abs(n), d] IN << n \div g, d \div g >>
Rat(n, d) == RatOf[n, d]
RatMul(q, k) == Rat(q[1] * k, q[2])
RatSub(p, q) == Rat(p[1] * q[2] - q[1] * p[2], p[2] * q[2])
RatAdd(p, q) == Rat(p[1] * q[2] + q[1] * p[2], p[2] * q[2])
RatOfInt(k) == << k, 1 >>
\* p / q for q > 0
RatDiv(p, q) == Rat(p[1] * q[2], p[2] * q[1])

\* ------------------------------------------------------- floating point
Pow2(k) == 2 ^ k

\* << A, D, e >> with a/d = (A/D) * 2^e and 2^(bits-1) <= A/D < 2^bits,
\* for a, d > 0.
Scale2Of[a \in Nat, d \in Nat, bits \in Nat, e \in Int] ==
    IF a \div d >= Pow2(bits)
    THEN (IF a % 2 = 0 THEN Scale2Of[a \div 2, d, bits, e + 1]
                       ELSE Scale2Of[a, 2 * d, bits, e + 1])
    ELSE IF a \div d < Pow2(bits - 1)
    THEN (IF d % 2 = 0 THEN Scale2Of[a, d \div 2, bits, e - 1]
                       ELSE Scale2Of[2 * a, d, bits, e - 1])
    ELSE << a, d, e >>
Scale2(a, d, bits, e) == Scale2Of[a, d, bits, e]

\* The integer nearest to a/d, ties to even.
NearestEven(a, d) ==
    LET m == a \div d
        r == a % d
    IN IF 2 * r > d \/ (2 * r = d /\ m % 2 = 1) THEN m + 1 ELSE m

\* The fraction n/d rounded to a binary floating-point number with a
\* significand of bits bits (round to nearest, ties to even; the values of
\* the program are far from the ends of the exponent range).
RoundOf[n \in Int, d \in Nat, bits \in Nat] ==
    IF n = 0 THEN << 0, 1 >>
    ELSE LET t == Scale2Of[Abs(n), d, bits, 0]
             m == NearestEven(t[1], t[2])
             sm == IF n < 0 THEN -m ELSE m
         IN IF t[3] >= 0 THEN RatOf[sm * Pow2(t[3]), 1]
                         ELSE RatOf[sm, Pow2(-t[3])]
Round(q, bits) == RoundOf[q[1], q[2], bits]

\* The result of a double operation, and of the conversion to float.
ToDouble(q) == Round(q, DoubleBits)
ToFloat(q) == Round(q, FloatBits)


\* --------------------------------------------------------------- particles
NullHandle == "0"

\* A value-initialised Particle: std::vector<Particle> particles(NUM_PARTICLES).
ZeroParticle ==
    [position |-> << 0, 0 >>, age |-> << 0, 1 >>, lifeTime |-> 0, steps |-> 0]

\* A record of a buffer allocated with a null data pointer: its contents are
\* undefined; the marker differs from every record the program writes.
Garbage ==
    [position |-> << 0, 0 >>, age |-> << -1, 1 >>, lifeTime |-> -1, steps |-> -1]

\* The k-th value of the Mersenne Twister seeded with seed: a fixed function
\* of the seed.
EngineDraw(seed, k) == (seed * 7919 + k * 104729 + (seed + 1) * k * k) % 65521

\* The draw of lifeTimeDistr for particle i: a value of [LifeTimeMin, LifeTimeMax).
LifeTimeDraw(seed, i) ==
    LifeTimeMin + (EngineDraw(seed, i) % (LifeTimeMax - LifeTimeMin))

\* A variant of the seeding that starts a particle at the pointer position,
\* the global mousePos, which is (0,0) before the first event drain.
SeedParticle_AtPointer(seed, i) ==
    [position |-> << 0, 0 >>,
     age      |-> << 0, 1 >>,
     lifeTime |-> LifeTimeDraw(seed, i),
     steps    |-> 0]

\* One iteration of the seeding loop.
SeedParticle(seed, i) ==
    [position |-> << 20, 20 >>,
     age      |-> << 0, 1 >>,
     lifeTime |-> LifeTimeDraw(seed, i),
     steps    |-> 0]

\* ------------------------------------------------------------ compute stage
\* One kernel invocation on one record: age advances by the deltaTime
\* uniform and the record has received one more step of the force law.
Kernel(p, dt, mp) == [p EXCEPT !.age = RatAdd(@, dt), !.steps = @ + 1]

\* The global invocation indices of a dispatch of numGroups work-groups.
Invocations(numGroups) == 0 .. (numGroups * WORK_GROUP_SIZE - 1)

\* The buffer after a dispatch of numGroups work-groups; invocations whose
\* index lies outside the buffer write nothing.
RunCompute(buf, numGroups, dt, mp) ==
    [i \in DOMAIN buf |->
        IF i \in Invocations(numGroups) THEN Kernel(buf[i], dt, mp) ELSE buf[i]]

\* A rounding-down variant of the group count: (N - 1) / groupSize.
NumGroupsX_Truncating == (NUM_PARTICLES - 1) \div WORK_GROUP_SIZE

\* The num_groups_x argument of glDispatchCompute.  C++ precedence:
\* NUM_PARTICLES +9/ WORK_GROUP_SIZE is NUM_PARTICLES + (9 / WORK_GROUP_SIZE).
NumGroupsX == NUM_PARTICLES + (9 \div WORK_GROUP_SIZE)

\* ---------------------------------------------------------------- pointer
\* A variant of the callback that does not flip the vertical axis.
mouse_callback_Unflipped(xpos, ypos, width, height) ==
    [x |-> ToFloat(ToDouble(RatSub(
               ToDouble(RatMul(ToDouble(RatDiv(xpos, RatOfInt(width))), 2)),
               RatOfInt(1)))),
     y |-> ToFloat(ToDouble(RatSub(
               ToDouble(RatMul(ToDouble(RatDiv(ypos, RatOfInt(height))), 2)),
               RatOfInt(1))))]

\* mouse_callback (Main.cpp:265-271): the new value of mousePos for a cursor
\* at (xpos, ypos), two doubles given as fractions, on a framebuffer of
\* width x height.  Each of (xpos / width), * 2.0f and - 1.0f is a double
\* operation; the assignment to the float member rounds once more.
mouse_callback(xpos, ypos, width, height) ==
    [x |-> ToFloat(ToDouble(RatSub(
               ToDouble(RatMul(ToDouble(RatDiv(xpos, RatOfInt(width))), 2)),
               RatOfInt(1)))),
     y |-> ToFloat(ToDouble(RatSub(
               RatOfInt(1),
               ToDouble(RatMul(ToDouble(RatDiv(ypos, RatOfInt(height))), 2)))))]

\* The callback as the drain calls it for raw event ev.
Deliver(ev) == mouse_callback(RatOfInt(ev.x), RatOfInt(ev.y), ev.w, ev.h)

\* A variant of the drain that handles only the first event queued.
RunCallbacks_FirstWins(mp, evs) ==
    IF evs = << >> THEN mp ELSE Deliver(Head(evs))

\* mousePos after the callback has run for each event of evs, in order.
RECURSIVE RunCallbacks(_, _)
RunCallbacks(mp, evs) ==
    IF evs = << >> THEN mp
    ELSE RunCallbacks(Deliver(Head(evs)), Tail(evs))

\* The event sequences one drain may deliver.
EventBatches == UNION { [1 .. k -> PointerEvents] : k \in 0 .. MaxEvents }
\* The same for the quiet environment of FairSpec: the pointer does not move.
QuietBatches == { << >> }

\* ---------------------------------------------------------------- helpers
\* The outcomes of the test (!success); an uninitialised GLint reads as
\* either.
NotSuccess(s) == IF s = "uninit" THEN BOOLEAN ELSE { s = "GL_FALSE" }

GLBool(b) == IF b THEN "GL_TRUE" ELSE "GL_FALSE"

\* glGetUniformLocation(computeShaderProgram, name): -1 unless the program
\* is linked and the uniform is active.
UniformLocation(name) ==
    IF computeShaderProgram \in linked /\ name \in activeUniforms
    THEN (IF name = "mousePos" THEN 0 ELSE 1)
    ELSE -1

\* -------------------------------------------------------------------- Init
Init ==
    /\ pc = "glfwInit"
    /\ exitCode = 0
    /\ glfwInitialized = FALSE
    /\ glfwTerminated = FALSE
    /\ window = "null"
    /\ callbackSet = FALSE
    /\ shouldClose = FALSE
    /\ clock = 0
    /\ lastFrameTime = 0
    /\ deltaTime = RatOfInt(0)
    /\ particles = [i \in Indices |-> ZeroParticle]
    /\ mousePos = [x |-> RatOfInt(0), y |-> RatOfInt(0)]
    /\ success = "uninit"
    /\ computeShader = NullHandle
    /\ vertexShader = NullHandle
    /\ fragmentShader = NullHandle
    /\ computeShaderProgram = NullHandle
    /\ renderShaderProgram = NullHandle
    /\ linked = {}
    /\ activeUniforms = {}
    /\ live = {}
    /\ ssbo = << >>
    /\ vbo = << >>
    /\ currentProgram = NullHandle
    /\ vertexArrayBinding = NullHandle
    /\ storageBinding = NullHandle
    /\ storageBinding0 = NullHandle
    /\ copyRead = NullHandle
    /\ copyWrite = NullHandle
    /\ particleData = "null"
    /\ uMousePos = [x |-> RatOfInt(0), y |-> RatOfInt(0)]
    /\ uDeltaTime = RatOfInt(0)
    /\ barriers = 0
    /\ unsynced = FALSE
    /\ deleteCalls = << >>
    /\ cerr = {}
    /\ frame = 0
    /\ frameLog = << >>
    /\ lastGroups = 0
    /\ lastEvent = << >>
    /\ closeObserved = FALSE
    /\ deltaSum = RatOfInt(0)

\* ---------------------------------------------------------------- start-up
\* Main.cpp:37-40
InitGlfw ==
    /\ pc = "glfwInit"
    /\ \E ok \in BOOLEAN :
        IF ok
        THEN /\ glfwInitialized' = TRUE
             /\ pc' = "glfwCreateWindow"
             /\ UNCHANGED << exitCode, cerr >>
        ELSE /\ cerr' = cerr \cup {<< "Failed to initialize GLFW", "main" >>}
             /\ exitCode' = -1
             /\ pc' = "Done"
             /\ UNCHANGED glfwInitialized
    /\ UNCHANGED << glfwTerminated, window, callbackSet, shouldClose, clock,
                    lastFrameTime, deltaTime, particles, mousePos, success,
                    computeShader, vertexShader, fragmentShader,
                    computeShaderProgram, renderShaderProgram, linked,
                    activeUniforms, live, ssbo, vbo, currentProgram,
                    vertexArrayBinding, storageBinding, storageBinding0,
                    copyRead, copyWrite, particleData, uMousePos, uDeltaTime,
                    barriers, unsynced, deleteCalls, frame, frameLog,
                    lastGroups, lastEvent, closeObserved, deltaSum >>

\* Main.cpp:43-48
CreateWindow ==
    /\ pc = "glfwCreateWindow"
    /\ \E ok \in BOOLEAN :
        IF ok
        THEN /\ window' = "open"
             /\ pc' = "glewInit"
             /\ UNCHANGED << exitCode, cerr, glfwTerminated >>
        ELSE /\ cerr' = cerr \cup {<< "Failed to create GLFW window", "main" >>}
             /\ glfwTerminated' = TRUE
             /\ exitCode' = -1
             /\ pc' = "Done"
             /\ UNCHANGED window
    /\ UNCHANGED << glfwInitialized, callbackSet, shouldClose, clock,
                    lastFrameTime, deltaTime, particles, mousePos, success,
                    computeShader, vertexShader, fragmentShader,
                    computeShaderProgram, renderShaderProgram, linked,
                    activeUniforms, live, ssbo, vbo, currentProgram,
                    vertexArrayBinding, storageBinding, storageBinding0,
                    copyRead, copyWrite, particleData, uMousePos, uDeltaTime,
                    barriers, unsynced, deleteCalls, frame, frameLog,
                    lastGroups, lastEvent, closeObserved, deltaSum >>

\* Main.cpp:51-58: glfwMakeContextCurrent, glewInit; the failure branch
\* returns without glfwTerminate.
InitGlew ==
    /\ pc = "glewInit"
    /\ \E ok \in BOOLEAN :
        IF ok
        THEN /\ pc' = "InitTime"
             /\ UNCHANGED << exitCode, cerr >>
        ELSE /\ cerr' = cerr \cup {<< "Failed to initialize GLEW", "main" >>}
             /\ exitCode' = -1
             /\ pc' = "Done"
    /\ UNCHANGED << glfwInitialized, glfwTerminated, window, callbackSet,
                    shouldClose, clock, lastFrameTime, deltaTime, particles,
                    mousePos, success, computeShader, vertexShader,
                    fragmentShader, computeShaderProgram, renderShaderProgram,
                    linked, activeUniforms, live, ssbo, vbo, currentProgram,
                    vertexArrayBinding, storageBinding, storageBinding0,
                    copyRead, copyWrite, particleData, uMousePos, uDeltaTime,
                    barriers, unsynced, deleteCalls, frame, frameLog,
                    lastGroups, lastEvent, closeObserved, deltaSum >>

\* Main.cpp:61-65: install the pointer callback, take the first clock reading.
InitTime ==
    /\ pc = "InitTime"
    /\ callbackSet' = TRUE
    /\ lastFrameTime' = clock
    /\ deltaTime' = RatOfInt(0)
    /\ pc' = "Seed"
    /\ UNCHANGED << exitCode, glfwInitialized, glfwTerminated, window,
                    shouldClose, clock, particles, mousePos, success,
                    computeShader, vertexShader, fragmentShader,
                    computeShaderProgram, renderShaderProgram, linked,
                    activeUniforms, live, ssbo, vbo, currentProgram,
                    vertexArrayBinding, storageBinding, storageBinding0,
                    copyRead, copyWrite, particleData, uMousePos, uDeltaTime,
                    barriers, unsynced, deleteCalls, cerr, frame, frameLog,
                    lastGroups, lastEvent, closeObserved, deltaSum >>

\* Main.cpp:67-89: the seeding loop over all particles.
Seed(seeds) ==
    /\ pc = "Seed"
    /\ \E seed \in seeds :
        particles' = [i \in Indices |-> SeedParticle(seed, i)]
    /\ pc' = "CompileCompute"
    /\ UNCHANGED << exitCode, glfwInitialized, glfwTerminated, window,
                    callbackSet, shouldClose, clock, lastFrameTime, deltaTime,
                    mousePos, success, computeShader, vertexShader,
                    fragmentShader, computeShaderProgram, renderShaderProgram,
                    linked, activeUniforms, live, ssbo, vbo, currentProgram,
                    vertexArrayBinding, storageBinding, storageBinding0,
                    copyRead, copyWrite, particleData, uMousePos, uDeltaTime,
                    barriers, unsynced, deleteCalls, cerr, frame, frameLog,
                    lastGroups, lastEvent, closeObserved, deltaSum >>


\* ----------------------------------------------------------- shader set-up
\* CompileShader (Main.cpp:281-298) followed by the caller's own status
\* check: the shader object is created in either case, the handle returned
\* is 0 on failure, and glGetShaderiv on handle 0 leaves success as it was.
CompileResult(ok, obj) == IF ok THEN obj ELSE NullHandle
StatusAfterCompile(ok) == IF ok THEN "GL_TRUE" ELSE success
CompileLog(ok, ns, kind, tag) ==
    cerr \cup (IF ok THEN {} ELSE {<< "ERROR::SHADER::COMPILATION_FAILED", kind >>})
         \cup (IF ns THEN {<< tag, kind >>} ELSE {})

\* Main.cpp:92-101
CompileCompute ==
    /\ pc = "CompileCompute"
    /\ \E ok \in BOOLEAN : \E ns \in NotSuccess(StatusAfterCompile(ok)) :
        /\ computeShader' = CompileResult(ok, "cs")
        /\ success' = StatusAfterCompile(ok)
        /\ cerr' = CompileLog(ok, ns, "compute", "ERROR::COMPUTESHADER::COMPILATION_FAILED")
    /\ live' = live \cup {"cs"}
    /\ pc' = "LinkCompute"
    /\ UNCHANGED << exitCode, glfwInitialized, glfwTerminated, window,
                    callbackSet, shouldClose, clock, lastFrameTime, deltaTime,
                    particles, mousePos, vertexShader, fragmentShader,
                    computeShaderProgram, renderShaderProgram, linked,
                    activeUniforms, ssbo, vbo, currentProgram,
                    vertexArrayBinding, storageBinding, storageBinding0,
                    copyRead, copyWrite, particleData, uMousePos, uDeltaTime,
                    barriers, unsynced, deleteCalls, frame, frameLog,
                    lastGroups, lastEvent, closeObserved, deltaSum >>

\* Main.cpp:103-111.  Whether a program links is the driver's answer; the
\* uniforms it exposes are those the compiled kernel source declares and uses.
LinkCompute ==
    /\ pc = "LinkCompute"
    /\ computeShaderProgram' = "computeProgram"
    /\ live' = live \cup {"computeProgram"}
    /\ \E ok \in BOOLEAN :
       \E act \in SUBSET (IF ok /\ computeShader # NullHandle
                          THEN {"mousePos", "deltaTime"} ELSE {}) :
        /\ linked' = IF ok THEN linked \cup {"computeProgram"} ELSE linked
        /\ activeUniforms' = act
        /\ success' = GLBool(ok)
        /\ cerr' = IF ok THEN cerr
                   ELSE cerr \cup {<< "ERROR::COMPUTEPROGRAM::LINKING_FAILED", "compute" >>}
    /\ pc' = "CompileVertex"
    /\ UNCHANGED << exitCode, glfwInitialized, glfwTerminated, window,
                    callbackSet, shouldClose, clock, lastFrameTime, deltaTime,
                    particles, mousePos, computeShader, vertexShader,
                    fragmentShader, renderShaderProgram, ssbo, vbo,
                    currentProgram, vertexArrayBinding, storageBinding,
                    storageBinding0, copyRead, copyWrite, particleData,
                    uMousePos, uDeltaTime, barriers, unsynced, deleteCalls,
                    frame, frameLog, lastGroups, lastEvent, closeObserved,
                    deltaSum >>

\* Main.cpp:114-122
CompileVertex ==
    /\ pc = "CompileVertex"
    /\ \E ok \in BOOLEAN : \E ns \in NotSuccess(StatusAfterCompile(ok)) :
        /\ vertexShader' = CompileResult(ok, "vs")
        /\ success' = StatusAfterCompile(ok)
        /\ cerr' = CompileLog(ok, ns, "vertex", "ERROR::VERTEXSHADER::COMPILATION_FAILED")
    /\ live' = live \cup {"vs"}
    /\ pc' = "CompileFragment"
    /\ UNCHANGED << exitCode, glfwInitialized, glfwTerminated, window,
                    callbackSet, shouldClose, clock, lastFrameTime, deltaTime,
                    particles, mousePos, computeShader, fragmentShader,
                    computeShaderProgram, renderShaderProgram, linked,
                    activeUniforms, ssbo, vbo, currentProgram,
                    vertexArrayBinding, storageBinding, storageBinding0,
                    copyRead, copyWrite, particleData, uMousePos, uDeltaTime,
                    barriers, unsynced, deleteCalls, frame, frameLog,
                    lastGroups, lastEvent, closeObserved, deltaSum >>

\* Main.cpp:124-130
CompileFragment ==
    /\ pc = "CompileFragment"
    /\ \E ok \in BOOLEAN : \E ns \in NotSuccess(StatusAfterCompile(ok)) :
        /\ fragmentShader' = CompileResult(ok, "fs")
        /\ success' = StatusAfterCompile(ok)
        /\ cerr' = CompileLog(ok, ns, "fragment", "ERROR::FRAGMENTSHADER::COMPILATION_FAILED")
    /\ live' = live \cup {"fs"}
    /\ pc' = "LinkRender"
    /\ UNCHANGED << exitCode, glfwInitialized, glfwTerminated, window,
                    callbackSet, shouldClose, clock, lastFrameTime, deltaTime,
                    particles, mousePos, computeShader, vertexShader,
                    computeShaderProgram, renderShaderProgram, linked,
                    activeUniforms, ssbo, vbo, currentProgram,
                    vertexArrayBinding, storageBinding, storageBinding0,
                    copyRead, copyWrite, particleData, uMousePos, uDeltaTime,
                    barriers, unsynced, deleteCalls, frame, frameLog,
                    lastGroups, lastEvent, closeObserved, deltaSum >>

\* Main.cpp:132-141
LinkRender ==
    /\ pc = "LinkRender"
    /\ renderShaderProgram' = "renderProgram"
    /\ live' = live \cup {"renderProgram"}
    /\ \E ok \in BOOLEAN :
        /\ linked' = IF ok THEN linked \cup {"renderProgram"} ELSE linked
        /\ success' = GLBool(ok)
        /\ cerr' = IF ok THEN cerr
                   ELSE cerr \cup {<< "ERROR::RENDERPROGRAM::LINKING_FAILED", "render" >>}
    /\ pc' = "CreateBuffers"
    /\ UNCHANGED << exitCode, glfwInitialized, glfwTerminated, window,
                    callbackSet, shouldClose, clock, lastFrameTime, deltaTime,
                    particles, mousePos, computeShader, vertexShader,
                    fragmentShader, computeShaderProgram, activeUniforms, ssbo,
                    vbo, currentProgram, vertexArrayBinding, storageBinding,
                    storageBinding0, copyRead, copyWrite, particleData,
                    uMousePos, uDeltaTime, barriers, unsynced, deleteCalls,
                    frame, frameLog, lastGroups, lastEvent, closeObserved,
                    deltaSum >>

\* glBufferData(target, count records, data): the new contents of the buffer;
\* a null data pointer leaves the contents undefined.
BufferData(count, data) ==
    [i \in 0 .. (count - 1) |-> IF data = << >> THEN Garbage ELSE data[i]]

\* Main.cpp:143-169: the SSBO with the seeded records, the VAO and the VBO
\* without contents, the attribute layout, blending.
CreateBuffers ==
    /\ pc = "CreateBuffers"
    /\ live' = live \cup {"particleSSBO", "particleVAO", "particleVBO"}
    /\ ssbo' = BufferData(Cardinality(DOMAIN particles), particles)
    /\ vbo' = BufferData(Cardinality(DOMAIN particles), << >>)
    /\ storageBinding' = "particleSSBO"
    /\ vertexArrayBinding' = NullHandle
    /\ pc' = "LoopTest"
    /\ UNCHANGED << exitCode, glfwInitialized, glfwTerminated, window,
                    callbackSet, shouldClose, clock, lastFrameTime, deltaTime,
                    particles, mousePos, success, computeShader, vertexShader,
                    fragmentShader, computeShaderProgram, renderShaderProgram,
                    linked, activeUniforms, currentProgram, storageBinding0,
                    copyRead, copyWrite, particleData, uMousePos, uDeltaTime,
                    barriers, unsynced, deleteCalls, cerr, frame, frameLog,
                    lastGroups, lastEvent, closeObserved, deltaSum >>


\* -------------------------------------------------------------- frame loop
\* glUseProgram(p): p becomes current if it is linked; otherwise the call
\* fails and the current program stays.
UseProgram(p) == IF p \in linked THEN p ELSE currentProgram

\* A variant of the copy that stops one record short.
CopyBufferSubData_Short(src, dst, count) ==
    [i \in DOMAIN dst |-> IF i < count - 1 THEN src[i] ELSE dst[i]]

\* glCopyBufferSubData(read, write, 0, 0, count records): the write buffer
\* afterwards.
CopyBufferSubData(src, dst, count) ==
    [i \in DOMAIN dst |-> IF i < count THEN src[i] ELSE dst[i]]

\* A variant of the loop test that acts on the close flag one test late.
LoopTest_Cached ==
    /\ pc = "LoopTest"
    /\ IF closeObserved
       THEN /\ pc' = "AfterLoop"
            /\ UNCHANGED << frame, frameLog, closeObserved >>
       ELSE /\ closeObserved' = shouldClose
            /\ frame' = frame + 1
            /\ frameLog' = << >>
            /\ pc' = "FrameStart"
    /\ UNCHANGED << exitCode, glfwInitialized, glfwTerminated, window,
                    callbackSet, shouldClose, clock, lastFrameTime, deltaTime,
                    particles, mousePos, success, computeShader, vertexShader,
                    fragmentShader, computeShaderProgram, renderShaderProgram,
                    linked, activeUniforms, live, ssbo, vbo, currentProgram,
                    vertexArrayBinding, storageBinding, storageBinding0,
                    copyRead, copyWrite, particleData, uMousePos, uDeltaTime,
                    barriers, unsynced, deleteCalls, cerr, lastGroups,
                    lastEvent, deltaSum >>

\* Main.cpp:173
LoopTest ==
    /\ pc = "LoopTest"
    /\ IF shouldClose
       THEN /\ closeObserved' = TRUE
            /\ pc' = "AfterLoop"
            /\ UNCHANGED << frame, frameLog >>
       ELSE /\ frame' = frame + 1
            /\ frameLog' = << >>
            /\ pc' = "FrameStart"
            /\ UNCHANGED closeObserved
    /\ UNCHANGED << exitCode, glfwInitialized, glfwTerminated, window,
                    callbackSet, shouldClose, clock, lastFrameTime, deltaTime,
                    particles, mousePos, success, computeShader, vertexShader,
                    fragmentShader, computeShaderProgram, renderShaderProgram,
                    linked, activeUniforms, live, ssbo, vbo, currentProgram,
                    vertexArrayBinding, storageBinding, storageBinding0,
                    copyRead, copyWrite, particleData, uMousePos, uDeltaTime,
                    barriers, unsynced, deleteCalls, cerr, lastGroups,
                    lastEvent, deltaSum >>

\* std::chrono::duration<float, std::chrono::seconds::period>(d).count() for
\* a clock duration of d ticks: the tick count converted to float, divided
\* by the float number of ticks in a second.
FloatSeconds(d) ==
    ToFloat(RatDiv(ToFloat(RatOfInt(d)), ToFloat(RatOfInt(TicksPerSecond))))

\* A variant of the frame start that keeps the reference reading of the
\* set-up instead of storing the new one.
FrameStart_FixedReference(steps) ==
    /\ pc = "FrameStart"
    /\ \E d \in steps :
        /\ clock' = clock + d
        /\ deltaTime' = FloatSeconds((clock + d) - lastFrameTime)
        /\ deltaSum' = RatAdd(deltaSum, FloatSeconds((clock + d) - lastFrameTime))
    /\ frameLog' = frameLog \o << "clear", "time" >>
    /\ pc' = "MapBuffer"
    /\ UNCHANGED << exitCode, glfwInitialized, glfwTerminated, window,
                    callbackSet, shouldClose, lastFrameTime, particles,
                    mousePos, success, computeShader, vertexShader,
                    fragmentShader, computeShaderProgram, renderShaderProgram,
                    linked, activeUniforms, live, ssbo, vbo, currentProgram,
                    vertexArrayBinding, storageBinding, storageBinding0,
                    copyRead, copyWrite, particleData, uMousePos, uDeltaTime,
                    barriers, unsynced, deleteCalls, cerr, frame, lastGroups,
                    lastEvent, closeObserved >>

\* Main.cpp:176-182: clear the framebuffer, set the point size, compute the
\* time delta.
FrameStart(steps) ==
    /\ pc = "FrameStart"
    /\ \E d \in steps :
        /\ clock' = clock + d
        /\ deltaTime' = FloatSeconds((clock + d) - lastFrameTime)
        /\ lastFrameTime' = clock + d
        /\ deltaSum' = RatAdd(deltaSum, FloatSeconds((clock + d) - lastFrameTime))
    /\ frameLog' = frameLog \o << "clear", "time" >>
    /\ pc' = "MapBuffer"
    /\ UNCHANGED << exitCode, glfwInitialized, glfwTerminated, window,
                    callbackSet, shouldClose, particles, mousePos, success,
                    computeShader, vertexShader, fragmentShader,
                    computeShaderProgram, renderShaderProgram, linked,
                    activeUniforms, live, ssbo, vbo, currentProgram,
                    vertexArrayBinding, storageBinding, storageBinding0,
                    copyRead, copyWrite, particleData, uMousePos, uDeltaTime,
                    barriers, unsynced, deleteCalls, cerr, frame, lastGroups,
                    lastEvent, closeObserved >>

\* Main.cpp:185-191: make the compute program current, bind the SSBO and map
\* it read-only; glMapBuffer returns a pointer or NULL.
MapBuffer ==
    /\ pc = "MapBuffer"
    /\ currentProgram' = UseProgram(computeShaderProgram)
    /\ storageBinding' = "particleSSBO"
    /\ \E ok \in BOOLEAN :
        particleData' = IF ok THEN "mapped" ELSE "null"
    /\ frameLog' = frameLog \o << "useCompute", "map" >>
    /\ pc' = "ReadBack"
    /\ UNCHANGED << exitCode, glfwInitialized, glfwTerminated, window,
                    callbackSet, shouldClose, clock, lastFrameTime, deltaTime,
                    particles, mousePos, success, computeShader, vertexShader,
                    fragmentShader, computeShaderProgram, renderShaderProgram,
                    linked, activeUniforms, live, ssbo, vbo, vertexArrayBinding,
                    storageBinding0, copyRead, copyWrite, uMousePos, uDeltaTime,
                    barriers, unsynced, deleteCalls, cerr, frame, lastGroups,
                    lastEvent, closeObserved, deltaSum >>

\* Main.cpp:193-207: if the mapping succeeded print the first ten records
\* and unmap; unbind the SSBO.  particleData goes out of scope.
ReadBack ==
    /\ pc = "ReadBack"
    /\ particleData' = "null"
    /\ storageBinding' = NullHandle
    /\ pc' = "CopyBuffer"
    /\ UNCHANGED << exitCode, glfwInitialized, glfwTerminated, window,
                    callbackSet, shouldClose, clock, lastFrameTime, deltaTime,
                    particles, mousePos, success, computeShader, vertexShader,
                    fragmentShader, computeShaderProgram, renderShaderProgram,
                    linked, activeUniforms, live, ssbo, vbo, currentProgram,
                    vertexArrayBinding, storageBinding0, copyRead, copyWrite,
                    uMousePos, uDeltaTime, barriers, unsynced, deleteCalls,
                    cerr, frame, frameLog, lastGroups, lastEvent, closeObserved,
                    deltaSum >>

\* A variant of the hand-off that copies in the opposite direction, from the
\* VBO into the SSBO.
CopyBuffer_Reversed ==
    /\ pc = "CopyBuffer"
    /\ copyRead' = "particleVBO"
    /\ copyWrite' = "particleSSBO"
    /\ ssbo' = CopyBufferSubData(vbo, ssbo, Cardinality(DOMAIN particles))
    /\ frameLog' = Append(frameLog, "copy")
    /\ pc' = "Uniforms"
    /\ UNCHANGED << exitCode, glfwInitialized, glfwTerminated, window,
                    callbackSet, shouldClose, clock, lastFrameTime, deltaTime,
                    particles, mousePos, success, computeShader, vertexShader,
                    fragmentShader, computeShaderProgram, renderShaderProgram,
                    linked, activeUniforms, live, vbo, currentProgram,
                    vertexArrayBinding, storageBinding, storageBinding0,
                    particleData, uMousePos, uDeltaTime, barriers, unsynced,
                    deleteCalls, cerr, frame, lastGroups, lastEvent,
                    closeObserved, deltaSum >>

\* Main.cpp:209-211
CopyBuffer ==
    /\ pc = "CopyBuffer"
    /\ copyRead' = "particleSSBO"
    /\ copyWrite' = "particleVBO"
    /\ vbo' = CopyBufferSubData(ssbo, vbo, Cardinality(DOMAIN particles))
    /\ frameLog' = Append(frameLog, "copy")
    /\ pc' = "Uniforms"
    /\ UNCHANGED << exitCode, glfwInitialized, glfwTerminated, window,
                    callbackSet, shouldClose, clock, lastFrameTime, deltaTime,
                    particles, mousePos, success, computeShader, vertexShader,
                    fragmentShader, computeShaderProgram, renderShaderProgram,
                    linked, activeUniforms, live, ssbo, currentProgram,
                    vertexArrayBinding, storageBinding, storageBinding0,
                    particleData, uMousePos, uDeltaTime, barriers, unsynced,
                    deleteCalls, cerr, frame, lastGroups, lastEvent,
                    closeObserved, deltaSum >>

\* The entries the uniform block appends to the log of the frame.
UniformLog(mLoc, dLoc) ==
    (IF mLoc # -1 THEN << "uniformMouse" >> ELSE << >>)
    \o (IF dLoc # -1 THEN << "uniformDelta" >> ELSE << >>)

\* The messages the uniform block writes.
UniformMisses(mLoc, dLoc) ==
    (IF mLoc = -1 THEN {<< "mousePos uniform location not found.", "main" >>} ELSE {})
    \cup (IF dLoc = -1 THEN {<< "deltaTime uniform location not found.", "main" >>} ELSE {})

\* A variant of the mousePos push without the location test.
PushMousePos_Unchecked(loc) == mousePos

\* Main.cpp:217-222: the mousePos uniform after the guarded glUniform2f.
PushMousePos(loc) == IF loc # -1 THEN mousePos ELSE uMousePos

\* Main.cpp:224-229: the deltaTime uniform after the guarded glUniform1f.
PushDeltaTime(loc) == IF loc # -1 THEN deltaTime ELSE uDeltaTime

\* Main.cpp:214-229
Uniforms ==
    /\ pc = "Uniforms"
    /\ LET mousePosLoc == UniformLocation("mousePos")
           deltaTimeLoc == UniformLocation("deltaTime")
       IN /\ uMousePos' = PushMousePos(mousePosLoc)
          /\ uDeltaTime' = PushDeltaTime(deltaTimeLoc)
          /\ cerr' = cerr \cup UniformMisses(mousePosLoc, deltaTimeLoc)
          /\ frameLog' = frameLog \o UniformLog(mousePosLoc, deltaTimeLoc)
    /\ pc' = "Dispatch"
    /\ UNCHANGED << exitCode, glfwInitialized, glfwTerminated, window,
                    callbackSet, shouldClose, clock, lastFrameTime, deltaTime,
                    particles, mousePos, success, computeShader, vertexShader,
                    fragmentShader, computeShaderProgram, renderShaderProgram,
                    linked, activeUniforms, live, ssbo, vbo, currentProgram,
                    vertexArrayBinding, storageBinding, storageBinding0,
                    copyRead, copyWrite, particleData, barriers, unsynced,
                    deleteCalls, frame, lastGroups, lastEvent, closeObserved,
                    deltaSum >>

\* glDispatchCompute runs the kernel only if the current program is the
\* compute program and that program has a compute stage.
DispatchRuns ==
    /\ currentProgram = computeShaderProgram
    /\ currentProgram # NullHandle
    /\ computeShader # NullHandle

\* A variant of the dispatch step that hands its output to the VBO at once.
Dispatch_WithHandOff ==
    /\ pc = "Dispatch"
    /\ storageBinding' = "particleSSBO"
    /\ storageBinding0' = "particleSSBO"
    /\ lastGroups' = NumGroupsX
    /\ unsynced' = TRUE
    /\ ssbo' = IF DispatchRuns
               THEN RunCompute(ssbo, NumGroupsX, uDeltaTime, uMousePos)
               ELSE ssbo
    /\ vbo' = ssbo'
    /\ frameLog' = Append(frameLog, "dispatch")
    /\ pc' = "Draw"
    /\ UNCHANGED << exitCode, glfwInitialized, glfwTerminated, window,
                    callbackSet, shouldClose, clock, lastFrameTime, deltaTime,
                    particles, mousePos, success, computeShader, vertexShader,
                    fragmentShader, computeShaderProgram, renderShaderProgram,
                    linked, activeUniforms, live, currentProgram,
                    vertexArrayBinding, copyRead, copyWrite, particleData,
                    uMousePos, uDeltaTime, barriers, deleteCalls, cerr, frame,
                    lastEvent, closeObserved, deltaSum >>

\* Main.cpp:230-231
Dispatch ==
    /\ pc = "Dispatch"
    /\ storageBinding' = "particleSSBO"
    /\ storageBinding0' = "particleSSBO"
    /\ lastGroups' = NumGroupsX
    /\ unsynced' = TRUE
    /\ ssbo' = IF DispatchRuns
               THEN RunCompute(ssbo, NumGroupsX, uDeltaTime, uMousePos)
               ELSE ssbo
    /\ frameLog' = Append(frameLog, "dispatch")
    /\ pc' = "Draw"
    /\ UNCHANGED << exitCode, glfwInitialized, glfwTerminated, window,
                    callbackSet, shouldClose, clock, lastFrameTime, deltaTime,
                    particles, mousePos, success, computeShader, vertexShader,
                    fragmentShader, computeShaderProgram, renderShaderProgram,
                    linked, activeUniforms, live, vbo, currentProgram,
                    vertexArrayBinding, copyRead, copyWrite, particleData,
                    uMousePos, uDeltaTime, barriers, deleteCalls, cerr, frame,
                    lastEvent, closeObserved, deltaSum >>

\* A variant of the render block that draws only with a linked program.
Draw_Guarded ==
    /\ pc = "Draw"
    /\ currentProgram' = UseProgram(renderShaderProgram)
    /\ vertexArrayBinding' = "particleVAO"
    /\ frameLog' = frameLog \o (IF renderShaderProgram \in linked
                                 THEN << "useRender", "draw" >>
                                 ELSE << "useRender" >>)
    /\ pc' = "PollEvents"
    /\ UNCHANGED << exitCode, glfwInitialized, glfwTerminated, window,
                    callbackSet, shouldClose, clock, lastFrameTime, deltaTime,
                    particles, mousePos, success, computeShader, vertexShader,
                    fragmentShader, computeShaderProgram, renderShaderProgram,
                    linked, activeUniforms, live, ssbo, vbo, storageBinding,
                    storageBinding0, copyRead, copyWrite, particleData,
                    uMousePos, uDeltaTime, barriers, unsynced, deleteCalls,
                    cerr, frame, lastGroups, lastEvent, closeObserved, deltaSum
                    >>

\* Main.cpp:237-239
Draw ==
    /\ pc = "Draw"
    /\ currentProgram' = UseProgram(renderShaderProgram)
    /\ vertexArrayBinding' = "particleVAO"
    /\ frameLog' = frameLog \o << "useRender", "draw" >>
    /\ pc' = "PollEvents"
    /\ UNCHANGED << exitCode, glfwInitialized, glfwTerminated, window,
                    callbackSet, shouldClose, clock, lastFrameTime, deltaTime,
                    particles, mousePos, success, computeShader, vertexShader,
                    fragmentShader, computeShaderProgram, renderShaderProgram,
                    linked, activeUniforms, live, ssbo, vbo, storageBinding,
                    storageBinding0, copyRead, copyWrite, particleData,
                    uMousePos, uDeltaTime, barriers, unsynced, deleteCalls,
                    cerr, frame, lastGroups, lastEvent, closeObserved, deltaSum
                    >>

\* Main.cpp:242-243: present the frame; glfwPollEvents then runs
\* mouse_callback for every pointer event queued and sets the close flag on
\* a close request.
PollEvents(batches) ==
    /\ pc = "PollEvents"
    /\ \E evs \in batches :
        /\ mousePos' = RunCallbacks(mousePos, evs)
        /\ lastEvent' = IF evs = << >> THEN lastEvent ELSE << evs[Len(evs)] >>
    /\ \E close \in (IF frame >= MaxFrames THEN {TRUE} ELSE BOOLEAN) :
        shouldClose' = (shouldClose \/ close)
    /\ frameLog' = frameLog \o << "present", "drain" >>
    /\ pc' = "LoopTest"
    /\ UNCHANGED << exitCode, glfwInitialized, glfwTerminated, window,
                    callbackSet, clock, lastFrameTime, deltaTime, particles,
                    success, computeShader, vertexShader, fragmentShader,
                    computeShaderProgram, renderShaderProgram, linked,
                    activeUniforms, live, ssbo, vbo, currentProgram,
                    vertexArrayBinding, storageBinding, storageBinding0,
                    copyRead, copyWrite, particleData, uMousePos, uDeltaTime,
                    barriers, unsynced, deleteCalls, cerr, frame, lastGroups,
                    closeObserved, deltaSum >>

\* ---------------------------------------------------------------- shutdown
\* Main.cpp:246-248: glGetError (its result is discarded), then the one
\* glMemoryBarrier of the program.
AfterLoop ==
    /\ pc = "AfterLoop"
    /\ barriers' = barriers + 1
    /\ unsynced' = FALSE
    /\ pc' = "Cleanup"
    /\ UNCHANGED << exitCode, glfwInitialized, glfwTerminated, window,
                    callbackSet, shouldClose, clock, lastFrameTime, deltaTime,
                    particles, mousePos, success, computeShader, vertexShader,
                    fragmentShader, computeShaderProgram, renderShaderProgram,
                    linked, activeUniforms, live, ssbo, vbo, currentProgram,
                    vertexArrayBinding, storageBinding, storageBinding0,
                    copyRead, copyWrite, particleData, uMousePos, uDeltaTime,
                    deleteCalls, cerr, frame, frameLog, lastGroups, lastEvent,
                    closeObserved, deltaSum >>

\* The handles passed to glDelete*, in the order of Main.cpp:253-260.
CleanupCalls ==
    << "particleSSBO", "particleVAO", "particleVBO", computeShader,
       computeShaderProgram, vertexShader, fragmentShader, renderShaderProgram >>

\* Main.cpp:253-260.  Deleting handle 0 does nothing; a program that is
\* current stays alive until the context goes; the bindings of a deleted
\* object revert to 0.
Cleanup ==
    /\ pc = "Cleanup"
    /\ deleteCalls' = deleteCalls \o CleanupCalls
    /\ live' = live \ ({ CleanupCalls[k] : k \in DOMAIN CleanupCalls } \ {currentProgram})
    /\ ssbo' = << >>
    /\ vbo' = << >>
    /\ storageBinding' = NullHandle
    /\ storageBinding0' = NullHandle
    /\ copyRead' = NullHandle
    /\ copyWrite' = NullHandle
    /\ vertexArrayBinding' = NullHandle
    /\ pc' = "Terminate"
    /\ UNCHANGED << exitCode, glfwInitialized, glfwTerminated, window,
                    callbackSet, shouldClose, clock, lastFrameTime, deltaTime,
                    particles, mousePos, success, computeShader, vertexShader,
                    fragmentShader, computeShaderProgram, renderShaderProgram,
                    linked, activeUniforms, currentProgram, particleData,
                    uMousePos, uDeltaTime, barriers, unsynced, cerr, frame,
                    frameLog, lastGroups, lastEvent, closeObserved, deltaSum >>

\* Main.cpp:261-262: glfwTerminate destroys the window and its context, and
\* with it every object the context still holds; main returns 0.
Terminate ==
    /\ pc = "Terminate"
    /\ glfwTerminated' = TRUE
    /\ window' = "destroyed"
    /\ live' = {}
    /\ currentProgram' = NullHandle
    /\ exitCode' = 0
    /\ pc' = "Done"
    /\ UNCHANGED << glfwInitialized, callbackSet, shouldClose, clock,
                    lastFrameTime, deltaTime, particles, mousePos, success,
                    computeShader, vertexShader, fragmentShader,
                    computeShaderProgram, renderShaderProgram, linked,
                    activeUniforms, ssbo, vbo, vertexArrayBinding,
                    storageBinding, storageBinding0, copyRead, copyWrite,
                    particleData, uMousePos, uDeltaTime, barriers, unsynced,
                    deleteCalls, cerr, frame, frameLog, lastGroups, lastEvent,
                    closeObserved, deltaSum >>

\* ------------------------------------------------------------ specification
\* The steps of main() that do not depend on the clock, the seed or the
\* pointer.
ProgramStep ==
    \/ InitGlfw
    \/ CreateWindow
    \/ InitGlew
    \/ InitTime
    \/ CompileCompute
    \/ LinkCompute
    \/ CompileVertex
    \/ CompileFragment
    \/ LinkRender
    \/ CreateBuffers
    \/ LoopTest
    \/ MapBuffer
    \/ ReadBack
    \/ CopyBuffer
    \/ Uniforms
    \/ Dispatch
    \/ Draw
    \/ AfterLoop
    \/ Cleanup
    \/ Terminate

Next ==
    \/ ProgramStep
    \/ Seed(Seeds)
    \/ FrameStart(ClockSteps)
    \/ PollEvents(EventBatches)

Spec == Init /\ [][Next]_vars

\* The program in a quiet environment (a steady clock, a pointer at rest;
\* every start-up, compile, link and mapping outcome stays possible), with
\* a control thread that keeps running: an enabled step is eventually taken.
QuietNext ==
    \/ ProgramStep
    \/ Seed(Seeds)
    \/ FrameStart(QuietClockSteps)
    \/ PollEvents(QuietBatches)

FairSpec == Init /\ [][QuietNext]_vars /\ WF_vars(QuietNext)

\* The set-up on its own, from the start of main() to the upload of the
\* seeded records, for every seed of 0 .. MaxSeed.
SeedRange == 0 .. MaxSeed

SeedingNext ==
    \/ InitGlfw
    \/ CreateWindow
    \/ InitGlew
    \/ InitTime
    \/ Seed(SeedRange)
    \/ CompileCompute
    \/ LinkCompute
    \/ CompileVertex
    \/ CompileFragment
    \/ LinkRender
    \/ CreateBuffers

SeedingSpec == Init /\ [][SeedingNext]_vars

\* The pointer callback on its own.  Its result depends on its arguments and
\* the framebuffer size only, so it is applied from the initial state to
\* every cursor position of PointerCases: the pixel corners 0 .. side and
\* the centre side/2 of each axis, on every surface of 1 .. MaxSide by
\* 1 .. MaxSide.
Sides == 1 .. MaxSide
Positions(side) == { RatOfInt(k) : k \in 0 .. side } \cup { Rat(side, 2) }
PointerCases ==
    UNION { { [xpos |-> x, ypos |-> y, width |-> w, height |-> h] :
                x \in Positions(w), y \in Positions(h) } :
            w \in Sides, h \in Sides }

PointerInit ==
    /\ Init
    /\ pc = "glfwInit"

\* GLFW calls mouse_callback(window, c.xpos, c.ypos); glfwGetFramebufferSize
\* reports c.width x c.height.
MouseCallback ==
    /\ pc = "glfwInit"
    /\ \E c \in PointerCases :
        /\ mousePos' = mouse_callback(c.xpos, c.ypos, c.width, c.height)
        /\ lastEvent' = << c >>
    /\ pc' = "mouse_callback"
    /\ UNCHANGED << exitCode, glfwInitialized, glfwTerminated, window,
                    callbackSet, shouldClose, clock, lastFrameTime, deltaTime,
                    particles, success, computeShader, vertexShader,
                    fragmentShader, computeShaderProgram, renderShaderProgram,
                    linked, activeUniforms, live, ssbo, vbo, currentProgram,
                    vertexArrayBinding, storageBinding, storageBinding0,
                    copyRead, copyWrite, particleData, uMousePos, uDeltaTime,
                    barriers, unsynced, deleteCalls, cerr, frame, frameLog,
                    lastGroups, closeObserved, deltaSum >>

PointerNext == MouseCallback

PointerSpec == PointerInit /\ [][PointerNext]_vars

\* -------------------------------------------------------------- properties
\* op occurs in the log of the current (or, between iterations, the last)
\* iteration.
InLog(op) == \E i \in DOMAIN frameLog : frameLog[i] = op

\* Every occurrence of op in the log has an occurrence of earlier before it.
Preceded(op, earlier) ==
    \A i \in DOMAIN frameLog :
        frameLog[i] = op => \E j \in 1 .. (i - 1) : frameLog[j] = earlier

\* The log without the uniform pushes.
IsStep(e) == e \notin {"uniformMouse", "uniformDelta"}
StepsOfFrame == SelectSeq(frameLog, IsStep)

\* An iteration has run to its end.
FrameComplete == pc = "LoopTest" /\ frame >= 1

CeilDiv(n, g) == (n + g - 1) \div g

\* C1: within one iteration the hand-off copy never precedes the compute
\* dispatch of that iteration and the draw never precedes the copy.
\* The code copies first (Main.cpp:211) and dispatches afterwards
\* (Main.cpp:231).
C1_DispatchCopyDraw ==
    /\ Preceded("copy", "dispatch")
    /\ Preceded("draw", "copy")

\* C2: when the draw call has been issued, the render-read buffer equals the
\* GPU State Buffer, record for record, as the dispatch of the same
\* iteration left it.
C2_DrawSeesDispatchOutput ==
    (pc = "PollEvents" /\ InLog("draw")) =>
        /\ DOMAIN vbo = Indices
        /\ \A i \in Indices : vbo[i] = ssbo[i]

\* C3: the hand-off copy never reads the GPU State Buffer while a compute
\* dispatch is outstanding without a memory barrier after it, and every
\* completed iteration has issued a barrier after its dispatch.
C3_BarrierAfterDispatch ==
    /\ (pc = "Uniforms" /\ InLog("copy")) => ~unsynced
    /\ FrameComplete => ~unsynced

\* C4: the number of work-groups dispatched is ceil(N / groupSize), which is
\* 100 for N = 1000 and groupSize = 10.
C4_DispatchCount ==
    InLog("dispatch") =>
        /\ lastGroups = CeilDiv(NUM_PARTICLES, WORK_GROUP_SIZE)
        /\ lastGroups = 100

\* C5: every dispatch covers all N particles: groups * groupSize >= N, and
\* every index of 0..N-1 is the index of one of its invocations.
C5_DispatchCoversAll ==
    InLog("dispatch") =>
        /\ lastGroups * WORK_GROUP_SIZE >= NUM_PARTICLES
        /\ \A i \in Indices : i \in 0 .. (lastGroups * WORK_GROUP_SIZE - 1)

C5_Witness ==
    /\ pc = "Draw"
    /\ InLog("dispatch")
    /\ DispatchRuns
    /\ \A i \in Indices : ssbo[i].steps = 1

\* The messages of the three resource-initialisation failures.
InitFailureMessages ==
    { << "Failed to initialize GLFW", "main" >>,
      << "Failed to create GLFW window", "main" >>,
      << "Failed to initialize GLEW", "main" >> }

\* C6: after a resource-initialisation failure the process has exited with a
\* non-zero code, it never entered Running, and what had been created was
\* released: the windowing collaborator is terminated if it had been
\* initialised.  The GLEW branch (Main.cpp:55-58) returns without
\* glfwTerminate.
C6_InitFailureReleases ==
    (cerr \cap InitFailureMessages # {}) =>
        /\ pc = "Done"
        /\ exitCode # 0
        /\ frame = 0
        /\ glfwInitialized => glfwTerminated

\* A compile or link failure has been reported.
ShaderFailureLogged ==
    \E m \in cerr : m[2] \in {"compute", "vertex", "fragment", "render"}

\* The fixed sequence of one iteration, uniform pushes aside.
FrameSequence ==
    << "clear", "time", "useCompute", "map", "copy", "dispatch", "useRender",
       "draw", "present", "drain" >>

C7_Safe ==
    /\ ShaderFailureLogged => exitCode = 0
    /\ (computeShaderProgram # NullHandle /\ computeShader = NullHandle)
          => << "ERROR::SHADER::COMPILATION_FAILED", "compute" >> \in cerr
    /\ (computeShaderProgram # NullHandle /\ computeShaderProgram \notin linked)
          => << "ERROR::COMPUTEPROGRAM::LINKING_FAILED", "compute" >> \in cerr
    /\ (renderShaderProgram # NullHandle /\ vertexShader = NullHandle)
          => << "ERROR::SHADER::COMPILATION_FAILED", "vertex" >> \in cerr
    /\ (renderShaderProgram # NullHandle /\ fragmentShader = NullHandle)
          => << "ERROR::SHADER::COMPILATION_FAILED", "fragment" >> \in cerr
    /\ (renderShaderProgram # NullHandle /\ renderShaderProgram \notin linked)
          => << "ERROR::RENDERPROGRAM::LINKING_FAILED", "render" >> \in cerr
    /\ FrameComplete => StepsOfFrame = FrameSequence

\* C7: whatever the outcomes of the three compilations and the two links, a
\* failure is logged and nothing more: the process does not exit with an
\* error, shader set-up runs to its end, Running is entered, and every
\* iteration is the same fixed sequence with the dispatch and the draw in it.
C7_ShaderFailuresOnlyLogged ==
    /\ []C7_Safe
    /\ (pc = "CompileCompute") ~> FrameComplete

C7_Witness ==
    /\ FrameComplete
    /\ frame = 2
    /\ computeShader = NullHandle
    /\ vertexShader = NullHandle
    /\ fragmentShader = NullHandle
    /\ computeShaderProgram # NullHandle
    /\ renderShaderProgram # NullHandle
    /\ linked = {}
    /\ InLog("dispatch")
    /\ InLog("draw")

\* The uniform block treats a lookup miss as "leave the uniform alone".
C8_PushStep ==
    pc = "Uniforms" =>
        /\ UniformLocation("mousePos") = -1 => uMousePos' = uMousePos
        /\ UniformLocation("mousePos") # -1 => uMousePos' = mousePos
        /\ UniformLocation("deltaTime") = -1 => uDeltaTime' = uDeltaTime
        /\ UniformLocation("deltaTime") # -1 => uDeltaTime' = deltaTime
        /\ pc' = "Dispatch"

\* C8: a uniform whose location lookup misses is not updated in that
\* iteration, the other one is updated if its own lookup succeeds, and the
\* iteration goes on to the dispatch, the draw, the present and the drain.
C8_UniformMissIsSoft ==
    /\ [][C8_PushStep]_vars
    /\ [](FrameComplete =>
            /\ InLog("dispatch")
            /\ InLog("draw")
            /\ InLog("present")
            /\ InLog("drain"))

C8_Witness ==
    /\ FrameComplete
    /\ frame = 2
    /\ UniformLocation("mousePos") = -1
    /\ UniformLocation("deltaTime") # -1
    /\ uMousePos # mousePos
    /\ uDeltaTime = deltaTime
    /\ uDeltaTime # RatOfInt(0)
    /\ InLog("uniformDelta")
    /\ ~InLog("uniformMouse")
    /\ InLog("dispatch")
    /\ InLog("draw")

\* The normalised position of raw event ev: x' = (2x - w)/w, y' = (h - 2y)/h.
Normalised(ev) ==
    [x |-> Rat(2 * ev.x - ev.w, ev.w), y |-> Rat(ev.h - 2 * ev.y, ev.h)]

\* The normalised position of the last pointer event delivered so far, the
\* initial value of the global if there was none.
ExpectedPointer ==
    IF lastEvent = << >>
    THEN [x |-> RatOfInt(0), y |-> RatOfInt(0)]
    ELSE Normalised(lastEvent[1])

\* C9: mousePos changes only in the event drain; it always is the normalised
\* position of the last event delivered; and between the uniform push and
\* the end of the dispatch of an iteration the uniform holds that value.
C9_PointerOnlyInDrain ==
    /\ [][mousePos' # mousePos => pc = "PollEvents"]_vars
    /\ [](mousePos = ExpectedPointer)
    /\ []((pc \in {"Dispatch", "Draw"} /\ UniformLocation("mousePos") # -1)
            => (uMousePos = ExpectedPointer /\ uMousePos = mousePos))

C9_Witness ==
    /\ pc = "Draw"
    /\ frame = 2
    /\ UniformLocation("mousePos") # -1
    /\ lastEvent # << >>
    /\ uMousePos = Normalised(lastEvent[1])
    /\ uMousePos # [x |-> RatOfInt(0), y |-> RatOfInt(0)]

ShutdownPcs == {"AfterLoop", "Cleanup", "Terminate", "Done"}

\* C10: once the loop test has found the close flag set, no iteration starts
\* and no step of an iteration is taken any more, and the program goes on
\* to the shutdown and returns 0.
C10_CloseEndsLoop ==
    /\ [][(pc = "LoopTest" /\ shouldClose) => closeObserved']_vars
    /\ [][closeObserved => (frame' = frame /\ frameLog' = frameLog)]_vars
    /\ [](closeObserved => pc \in ShutdownPcs)
    /\ (pc = "LoopTest" /\ shouldClose) ~> (pc = "Done" /\ exitCode = 0)

C10_Witness ==
    /\ closeObserved
    /\ pc = "Done"
    /\ exitCode = 0
    /\ frame = 1
    /\ glfwTerminated

\* The number of times handle o was passed to a glDelete* call.
DeleteCount(o) == Cardinality({ k \in DOMAIN deleteCalls : deleteCalls[k] = o })

\* The GL objects created so far: those still held by the context and those
\* already deleted.
CreatedObjects ==
    live \cup ({ deleteCalls[k] : k \in DOMAIN deleteCalls } \ {NullHandle})

\* C11: when the shutdown reaches glfwTerminate, every GL object created
\* during the set-up (two buffers, the vertex array, three shaders, two
\* programs) has been passed to its glDelete* call exactly once, nothing is
\* left bound, and the shutdown is never left again.  CompileShader returns
\* 0 for a shader that failed to compile (Main.cpp:291-295), so the cleanup
\* (Main.cpp:256, 258, 259) deletes handle 0 and the shader object created
\* at Main.cpp:282 is never deleted.
C11_ReleasedOnceBeforeTerminate ==
    /\ pc = "Terminate" =>
          /\ Cardinality(CreatedObjects) = 8
          /\ \A o \in CreatedObjects : DeleteCount(o) = 1
          /\ storageBinding = NullHandle
          /\ storageBinding0 = NullHandle
          /\ vertexArrayBinding = NullHandle
    /\ (glfwTerminated /\ exitCode = 0 /\ pc = "Done") => live = {}
    /\ closeObserved => pc \in ShutdownPcs

\* The positions of main() inside the frame loop.
RunningPcs ==
    { "LoopTest", "FrameStart", "MapBuffer", "ReadBack", "CopyBuffer",
      "Uniforms", "Dispatch", "Draw", "PollEvents" }

\* The compute program can run its kernel: it linked with a compiled
\* compute stage.
ComputeUsable ==
    computeShaderProgram \in linked /\ computeShader # NullHandle

\* C12: inside the frame loop the contents of the SSBO change in the dispatch
\* step only (not in the clear, the map/unmap read-back, the copy, the
\* uniform pushes, the draw, the present or the drain), a dispatch that runs
\* no kernel leaves them as they were, so that while no kernel has run the
\* SSBO still holds the records of the initial upload; and the CPU-side
\* vector is not written in the loop.
C12_OnlyDispatchWritesSsbo ==
    /\ [][(pc \in RunningPcs /\ pc # "Dispatch") => ssbo' = ssbo]_vars
    /\ [][(pc = "Dispatch" /\ ~DispatchRuns) => ssbo' = ssbo]_vars
    /\ [][(pc \in RunningPcs) => particles' = particles]_vars
    /\ []((pc \in RunningPcs /\ ~ComputeUsable) => ssbo = particles)

C12_Witness ==
    /\ FrameComplete
    /\ frame = 2
    /\ ~ComputeUsable
    /\ InLog("map")
    /\ InLog("copy")
    /\ InLog("dispatch")
    /\ InLog("draw")
    /\ ssbo = particles
    /\ vbo = ssbo
    /\ \A i \in Indices : ssbo[i] = SeedParticle(0, i)

\* |p - q| <= 2^(-bits), for fractions p and q.
Within(p, q, bits) ==
    Abs(p[1] * q[2] - q[1] * p[2]) * Pow2(bits) <= p[2] * q[2]

\* 2x/width - 1 and 1 - 2y/height as exact fractions.
ExactX(c) == RatSub(RatMul(RatDiv(c.xpos, RatOfInt(c.width)), 2), RatOfInt(1))
ExactY(c) == RatSub(RatOfInt(1), RatMul(RatDiv(c.ypos, RatOfInt(c.height)), 2))

\* Fraction q is a value of the format with a significand of bits bits.
Representable(q, bits) == Round(q, bits) = q

\* C13: after the callback has run for a cursor at (x, y) on a surface of
\* width x height (both positive), mousePos is (2x/width - 1, 1 - 2y/height)
\* as float arithmetic gives it: equal to it wherever the quotient and the
\* result are values of the formats, and within one unit of the float's
\* precision everywhere; the centre maps to (0,0), the top-left corner to
\* (-1,1) and the bottom-right corner (width, height) to (1,-1), exactly.
C13_PointerMapping ==
    pc = "mouse_callback" =>
        LET c == lastEvent[1] IN
        /\ c.width > 0 /\ c.height > 0
        /\ Within(mousePos.x, ExactX(c), FloatBits)
        /\ Within(mousePos.y, ExactY(c), FloatBits)
        /\ (Representable(RatDiv(c.xpos, RatOfInt(c.width)), DoubleBits)
              /\ Representable(ExactX(c), FloatBits)) => mousePos.x = ExactX(c)
        /\ (Representable(RatDiv(c.ypos, RatOfInt(c.height)), DoubleBits)
              /\ Representable(ExactY(c), FloatBits)) => mousePos.y = ExactY(c)
        /\ (c.xpos = Rat(c.width, 2) /\ c.ypos = Rat(c.height, 2))
              => mousePos = [x |-> RatOfInt(0), y |-> RatOfInt(0)]
        /\ (c.xpos = RatOfInt(0) /\ c.ypos = RatOfInt(0))
              => mousePos = [x |-> RatOfInt(-1), y |-> RatOfInt(1)]
        /\ (c.xpos = RatOfInt(c.width) /\ c.ypos = RatOfInt(c.height))
              => mousePos = [x |-> RatOfInt(1), y |-> RatOfInt(-1)]

C13_Witness ==
    /\ pc = "mouse_callback"
    /\ lastEvent = << [xpos |-> Rat(3, 2), ypos |-> Rat(5, 2),
                       width |-> 3, height |-> 5] >>
    /\ mousePos = [x |-> RatOfInt(0), y |-> RatOfInt(0)]

\* The positions of main() after the seeding loop and before the frame loop.
SeededPcs ==
    { "CompileCompute", "LinkCompute", "CompileVertex", "CompileFragment",
      "LinkRender", "CreateBuffers" }

C15_ProgramsCurrent ==
    /\ (pc = "Uniforms"
          /\ (UniformLocation("mousePos") # -1 \/ UniformLocation("deltaTime") # -1))
          => currentProgram = computeShaderProgram
    /\ (pc = "Draw" /\ InLog("dispatch")) =>
          /\ currentProgram = computeShaderProgram
          /\ currentProgram # renderShaderProgram
          /\ storageBinding0 = "particleSSBO"
    /\ (pc = "PollEvents" /\ InLog("draw")) =>
          /\ currentProgram = renderShaderProgram
          /\ currentProgram # computeShaderProgram
          /\ vertexArrayBinding = "particleVAO"

\* The clock time, in seconds, between the reading of the set-up (reading 0)
\* and the reading stored last.
ElapsedSeconds == Rat(lastFrameTime, TicksPerSecond)

\* |p - q| <= q * 2^(-bits), for fractions p and q >= 0.
WithinRel(p, q, bits) ==
    Abs(p[1] * q[2] - q[1] * p[2]) * Pow2(bits) <= q[1] * p[2]

\* C16 as stated: the delta of an iteration is the difference of its reading
\* and the previous one, the reading is stored in every iteration, no delta
\* is negative, and the deltas computed so far sum exactly to the clock
\* time elapsed since the reading of the set-up.  deltaTime is a float
\* (Main.cpp:65, 181): a difference such as 0.1 s is not a value of the
\* format, so neither the delta nor the sum is exact.
C16_DeltasSumExactly ==
    /\ [][pc = "FrameStart" =>
            /\ deltaTime' = Rat(clock' - lastFrameTime, TicksPerSecond)
            /\ lastFrameTime' = clock'
            /\ deltaTime'[1] >= 0]_vars
    /\ [](deltaSum = ElapsedSeconds)

\* C16, amended: the delta of an iteration is the float conversion of the
\* difference between its clock reading and the previous one (that of the
\* set-up for the first iteration); the reading is stored, unrounded, in
\* every iteration and nowhere else, so the differences add up to the
\* elapsed clock time and the deltas sum to it within the rounding of the
\* conversions; no delta is negative.
C16_DeltaIsFloatOfDifference ==
    /\ [][pc = "FrameStart" =>
            /\ deltaTime' = FloatSeconds(clock' - lastFrameTime)
            /\ lastFrameTime' = clock'
            /\ deltaTime'[1] >= 0]_vars
    /\ [][pc # "FrameStart" =>
            /\ lastFrameTime' = lastFrameTime
            /\ deltaTime' = deltaTime
            /\ deltaSum' = deltaSum]_vars
    /\ [](lastFrameTime = clock)
    /\ [](WithinRel(deltaSum, ElapsedSeconds, FloatBits - 1))

C16_Witness ==
    /\ pc = "LoopTest"
    /\ frame = 2
    /\ clock = 4
    /\ lastFrameTime = 4
    /\ deltaTime = FloatSeconds(3)
    /\ deltaSum = RatAdd(FloatSeconds(1), FloatSeconds(3))
    /\ deltaSum # ElapsedSeconds
    /\ uDeltaTime = deltaTime

\* C17: the records the draw of iteration k reads are the SSBO as k-1
\* dispatches left it: the seeded records in the first iteration and, with
\* a usable compute program, records with k-1 kernel steps while the SSBO
\* already has k, the uniform time delta of the iteration's own dispatch
\* not yet added to their age.
C17_DrawIsOneDispatchBehind ==
    (pc = "PollEvents" /\ InLog("draw")) =>
        /\ DOMAIN vbo = Indices
        /\ frame = 1 => vbo = particles
        /\ ComputeUsable =>
              \A i \in Indices :
                  /\ vbo[i].steps = frame - 1
                  /\ ssbo[i].steps = frame
                  /\ ssbo[i] = Kernel(vbo[i], uDeltaTime, uMousePos)
        /\ ~ComputeUsable => (vbo = particles /\ ssbo = particles)

C17_Witness ==
    /\ pc = "PollEvents"
    /\ InLog("draw")
    /\ frame = 2
    /\ ComputeUsable
    /\ uDeltaTime # RatOfInt(0)
    /\ \A i \in Indices :
          /\ vbo[i].steps = 1
          /\ ssbo[i].steps = 2
          /\ vbo[i].age # ssbo[i].age

\* The positions of main() at which both buffers exist.
BufferPcs == RunningPcs \cup { "AfterLoop", "Cleanup" }

\* C18: the VBO is created without contents; when a draw is issued, a copy
\* has been made earlier in the same iteration and no record of the VBO is
\* still undefined; and from their creation to their deletion the SSBO and
\* the VBO both hold N records.
C18_DrawReadsWrittenVbo ==
    /\ (pc = "LoopTest" /\ frame = 0) => \A i \in Indices : vbo[i] = Garbage
    /\ pc = "Draw" => InLog("copy")
    /\ (pc = "PollEvents" /\ InLog("draw")) =>
          /\ Preceded("draw", "copy")
          /\ \A i \in Indices : vbo[i] # Garbage
    /\ pc \in BufferPcs =>
          /\ DOMAIN ssbo = Indices
          /\ DOMAIN vbo = Indices
          /\ Cardinality(DOMAIN ssbo) = NUM_PARTICLES
          /\ Cardinality(DOMAIN vbo) = NUM_PARTICLES

C18_Witness ==
    /\ pc = "PollEvents"
    /\ frame = 1
    /\ InLog("copy")
    /\ InLog("draw")
    /\ DOMAIN vbo = Indices
    /\ vbo = particles
    /\ vbo[NUM_PARTICLES - 1] # Garbage

=============================================================================
